---- MODULE Spec2Model ----
(***************************************************************************)
(* pl::Status (src/common/base/status.h): a value that is either success   *)
(* (no State record) or a failure owning one heap State record (code,      *)
(* message, optional context payload), with deep copy, assignment,         *)
(* equality, the wire form and the PL_RETURN_IF_ERROR propagation idiom.   *)
(*                                                                         *)
(* The heap is explicit: state_ maps each live Status object to the        *)
(* address of its State record (NULL for success), states maps allocated   *)
(* addresses to State records, anys maps allocated addresses to context    *)
(* payloads (google::protobuf::Any).  Operations are functions from heap   *)
(* to heap so that an action can compose several of them.                  *)
(***************************************************************************)
EXTENDS Integers, Sequences, FiniteSets, TLC

VARIABLES
  state_,    \* live Status object -> address of its State, or NULL
  states,    \* allocated State address -> [code, msg, context]
  anys,      \* allocated Any address -> payload value
  last,      \* the operation performed last
  stack,     \* propagation: call stack of frames [step, phase]
  counter,   \* propagation: side effect of the step expressions
  idioms,    \* propagation: executions of PL_RETURN_IF_ERROR started
  firstFail  \* propagation: <<>> or <<[code, msg, context]>> of the first failing expression

vars == <<state_, states, anys, last, stack, counter, idioms, firstFail>>
propVars == <<stack, counter, idioms, firstFail>>

----------------------------------------------------------------------------
(* Values *)

\* Number of Status variables of the client program.
NumObjects == 2
\* Longest message drawn for a constructor.
MaxMsgLen == 1
\* Nesting depth of operations using the propagation idiom.
Depth == 2
\* PL_RETURN_IF_ERROR steps per operation.
NumSteps == 2

NULL == 0
OK == "OK"
Codes == {OK, "NOT_FOUND", "UNIMPLEMENTED"}
MsgChars == {"k"}
Msgs == UNION {[1..n -> MsgChars] : n \in 0..MaxMsgLen}
\* Concrete protobuf messages a caller may attach as context.
Messages == {"m1", "m2"}
\* PackFrom: the Any holding a concrete message (its type and its bytes).
PackFrom(m) == [type_url |-> "type.googleapis.com/Ctx", value |-> m]
Anys == {PackFrom(m) : m \in Messages}
\* An optional value is the empty sequence or a one-element sequence.
Opt(S) == {<<>>} \cup {<<v>> : v \in S}
\* pl::statuspb::Status, the wire form.
WireVals == [code : Codes, msg : Msgs, context : Opt(Anys)]

Objects == 1..NumObjects

Heap == [state_ |-> state_, states |-> states, anys |-> anys]

\* Addresses are opaque: the program only compares them.  Canon renames them
\* (a symmetry reduction) so that a State sits at the number of the lowest
\* object pointing to it, and an Any at the number of the lowest object whose
\* State points to it.  Sharing, leaks and dangling pointers are kept: a heap
\* with a leak or a dangling pointer is left as it is.
Owned(h) == {h.state_[x] : x \in DOMAIN h.state_} \ {NULL}
CtxOwned(h) == {h.states[a].context : a \in DOMAIN h.states} \ {NULL}
Owner(h, a) ==
  CHOOSE x \in DOMAIN h.state_ :
    /\ h.state_[x] = a
    /\ \A y \in DOMAIN h.state_ : h.state_[y] = a => x <= y
CtxOwner(h, c) ==
  CHOOSE x \in DOMAIN h.state_ :
    /\ h.state_[x] # NULL /\ h.states[h.state_[x]].context = c
    /\ \A y \in DOMAIN h.state_ :
         (h.state_[y] # NULL /\ h.states[h.state_[y]].context = c) => x <= y
Canon(h) ==
  IF Owned(h) = DOMAIN h.states /\ CtxOwned(h) = DOMAIN h.anys
  THEN [state_ |-> [x \in DOMAIN h.state_ |->
                     IF h.state_[x] = NULL THEN NULL ELSE Owner(h, h.state_[x])],
        states |-> [n \in {Owner(h, a) : a \in DOMAIN h.states} |->
                     LET r == h.states[h.state_[n]] IN
                     [r EXCEPT !.context = IF @ = NULL THEN NULL ELSE CtxOwner(h, @)]],
        anys |-> [n \in {CtxOwner(h, c) : c \in DOMAIN h.anys} |->
                   h.anys[h.states[h.state_[n]].context]]]
  ELSE h

SetHeap(h) ==
  \E hv \in {h} : \E c \in {Canon(hv)} :
    /\ state_' = c.state_
    /\ states' = c.states
    /\ anys' = c.anys

\* operator new: the lowest address not in use.
NewAddr(f) ==
  CHOOSE a \in 1..(Cardinality(DOMAIN f) + 1) :
    /\ a \notin DOMAIN f
    /\ \A b \in 1..(a - 1) : b \in DOMAIN f

Remove(f, a) == [b \in DOMAIN f \ {a} |-> f[b]]

----------------------------------------------------------------------------
(* Accessors (status.h:30-40, 73-76) *)

empty_string == <<>>

ok(h, x) == h.state_[x] = NULL

code(h, x) == IF ok(h, x) THEN OK ELSE h.states[h.state_[x]].code

msg(h, x) == IF ok(h, x) THEN empty_string ELSE h.states[h.state_[x]].msg

context(h, x) == IF ok(h, x) THEN NULL ELSE h.states[h.state_[x]].context

\* The comparison with nullptr the wrong way round.
has_context_inverted(h, x) ==
  IF ok(h, x) THEN FALSE ELSE h.states[h.state_[x]].context = NULL

has_context(h, x) == IF ok(h, x) THEN FALSE ELSE h.states[h.state_[x]].context # NULL

\* The payload behind context(), as an optional value.
ContextValue(h, x) ==
  IF context(h, x) = NULL THEN <<>>
  ELSE IF context(h, x) \in DOMAIN h.anys THEN <<h.anys[context(h, x)]>>
  ELSE <<[type_url |-> "dangling", value |-> "dangling"]>>

----------------------------------------------------------------------------
(* State (status.h:53-71, 82-91) *)

\* State(code, msg, unique_ptr<Any> context): stores its arguments.
State_any(h, c, m, ctx) == [heap |-> h, rec |-> [code |-> c, msg |-> m, context |-> ctx]]

\* State(code, msg, unique_ptr<Message> generic_pb_context): packs a non-null
\* message into a fresh Any.
State_message(h, c, m, g) ==
  IF g = <<>>
  THEN [heap |-> h, rec |-> [code |-> c, msg |-> m, context |-> NULL]]
  ELSE LET a == NewAddr(h.anys) IN
       [heap |-> [h EXCEPT !.anys = a :> PackFrom(g[1]) @@ @],
        rec |-> [code |-> c, msg |-> m, context |-> a]]

\* A copy constructor that shares the context payload instead of cloning it.
State_copy_shallow(h, sa) == [heap |-> h, rec |-> h.states[sa]]

\* State(const State&): code and msg copied, the context cloned into a new Any.
State_copy(h, sa) ==
  LET s == h.states[sa] IN
  IF s.context = NULL
  THEN [heap |-> h, rec |-> [code |-> s.code, msg |-> s.msg, context |-> NULL]]
  ELSE LET a == NewAddr(h.anys) IN
       [heap |-> [h EXCEPT !.anys = a :> h.anys[s.context] @@ @],
        rec |-> [code |-> s.code, msg |-> s.msg, context |-> a]]

\* new State / make_unique<State>: the record placed at a fresh address.
NewState(r) ==
  LET a == NewAddr(r.heap.states) IN
  [heap |-> [r.heap EXCEPT !.states = a :> r.rec @@ @], addr |-> a]

\* ~unique_ptr<State>: frees the State and the Any it owns.
DeleteState(h, sa) ==
  IF sa = NULL THEN h
  ELSE [h EXCEPT !.states = Remove(@, sa),
                 !.anys = IF h.states[sa].context = NULL THEN @
                          ELSE Remove(@, h.states[sa].context)]

----------------------------------------------------------------------------
(* Status (status.h:19-25, 47, 93-106) *)

\* A default constructor that builds a State holding OK and no message.
Status_default_alloc(h, x) ==
  LET n == NewState(State_any(h, OK, empty_string, NULL)) IN
  [n.heap EXCEPT !.state_ = x :> n.addr @@ @]

\* Status() = default; Status::OK()
Status_default(h, x) == [h EXCEPT !.state_ = x :> NULL @@ @]

\* Status(code, msg, unique_ptr<Message> ctx)
Status_ctx(h, x, c, m, g) ==
  LET n == NewState(State_message(h, c, m, g)) IN
  [n.heap EXCEPT !.state_ = x :> n.addr @@ @]

\* Status(code, msg): a State with no context.
Status_msg(h, x, c, m) == Status_ctx(h, x, c, m, <<>>)

\* Status(const pl::statuspb::Status&): code and message verbatim, the
\* context entry, if any, kept as an opaque Any.
Status_pb(h, x, w) ==
  LET ctx == IF w.context = <<>> THEN [heap |-> h, addr |-> NULL]
             ELSE LET a == NewAddr(h.anys) IN
                  [heap |-> [h EXCEPT !.anys = a :> w.context[1] @@ @], addr |-> a]
      n == NewState(State_any(ctx.heap, w.code, w.msg, ctx.addr))
  IN [n.heap EXCEPT !.state_ = x :> n.addr @@ @]

\* Status(const Status& s)
Status_copy(h, x, s) ==
  IF h.state_[s] = NULL
  THEN [h EXCEPT !.state_ = x :> NULL @@ @]
  ELSE LET n == NewState(State_copy(h, h.state_[s])) IN
       [n.heap EXCEPT !.state_ = x :> n.addr @@ @]

\* An assignment that copies the pointer instead of the State.
Status_assign_alias(h, a, s) ==
  IF h.state_[a] # h.state_[s]
  THEN [DeleteState(h, h.state_[a]) EXCEPT !.state_[a] = h.state_[s]]
  ELSE h

\* void operator=(const Status& s): the new State is built before the old one
\* is released by the unique_ptr assignment.
Status_assign(h, a, s) ==
  IF h.state_[a] # h.state_[s]
  THEN IF h.state_[s] = NULL
       THEN [DeleteState(h, h.state_[a]) EXCEPT !.state_[a] = NULL]
       ELSE LET n == NewState(State_copy(h, h.state_[s])) IN
            [DeleteState(n.heap, h.state_[a]) EXCEPT !.state_[a] = n.addr]
  ELSE h

\* ~Status()
Status_destroy(h, x) ==
  [DeleteState(h, h.state_[x]) EXCEPT !.state_ = Remove(@, x)]

----------------------------------------------------------------------------
(* Rendering, equality, wire form *)

\* The code's textual name.
CodeToString(c) == <<c>>

\* ToString(): the code's name and the message.
Status_ToString(h, x) == CodeToString(code(h, x)) \o <<" : ">> \o msg(h, x)

operator_eq(h, a, x) ==
  (h.state_[a] = h.state_[x]) \/ (Status_ToString(h, a) = Status_ToString(h, x))

operator_ne(h, a, x) == ~operator_eq(h, a, x)

\* void ToProto(pl::statuspb::Status* status_pb): populates an existing value.
ToProtoInto(h, x, dest) ==
  [dest EXCEPT !.code = code(h, x),
               !.msg = msg(h, x),
               !.context = ContextValue(h, x)]

DefaultPb == [code |-> OK, msg |-> <<>>, context |-> <<>>]

\* pl::statuspb::Status ToProto(): a new wire value.
ToProto(h, x) == ToProtoInto(h, x, DefaultPb)

----------------------------------------------------------------------------
(* Adapters (status.h:120-129) *)

\* StatusAdapter<Status>: returns s by value, i.e. a copy.
StatusAdapter_Status(h, x, s) == Status_copy(h, x, s)

\* The generic template's placeholder result.
StatusAdapter_placeholder(h, x, w) ==
  Status_msg(h, x, "UNIMPLEMENTED", <<>>)

\* StatusAdapter<pl::statuspb::Status>
StatusAdapter_pb(h, x, w) == Status_pb(h, x, w)

----------------------------------------------------------------------------
(* Operations of a client on its Status variables *)

Live == DOMAIN state_

Did(op, dst) == last' = op

DefaultCtor(x) ==
  /\ x \notin Live
  /\ SetHeap(Status_default(Heap, x))
  /\ Did("default", x)
  /\ UNCHANGED propVars

MsgCtor(x, c, m) ==
  /\ x \notin Live
  /\ SetHeap(Status_msg(Heap, x, c, m))
  /\ Did("msg", x)
  /\ UNCHANGED propVars

CtxCtor(x, c, m, g) ==
  /\ x \notin Live
  /\ SetHeap(Status_ctx(Heap, x, c, m, g))
  /\ Did("ctx", x)
  /\ UNCHANGED propVars

\* A wire round trip: Status x(s.ToProto()).
PbCtor(x, s) ==
  /\ x \notin Live
  /\ s \in Live
  /\ SetHeap(Status_pb(Heap, x, ToProto(Heap, s)))
  /\ Did("pb", x)
  /\ UNCHANGED propVars

\* StatusAdapter of a wire value received from elsewhere.
AdaptPb(x, w) ==
  /\ x \notin Live
  /\ SetHeap(StatusAdapter_pb(Heap, x, w))
  /\ Did("adapt_pb", x)
  /\ UNCHANGED propVars

CopyCtor(x, s) ==
  /\ x \notin Live
  /\ s \in Live
  /\ SetHeap(Status_copy(Heap, x, s))
  /\ Did("copy", x)
  /\ UNCHANGED propVars

Assign(a, s) ==
  /\ a \in Live
  /\ s \in Live
  /\ SetHeap(Status_assign(Heap, a, s))
  /\ Did("assign", a)
  /\ UNCHANGED propVars

Destroy(x) ==
  /\ x \in Live
  /\ SetHeap(Status_destroy(Heap, x))
  /\ Did("destroy", x)
  /\ UNCHANGED propVars

\* A write through the Any* that context() returns.
ContextWrite(x, v) ==
  /\ x \in Live
  /\ context(Heap, x) # NULL
  /\ anys' = [anys EXCEPT ![context(Heap, x)] = v]
  /\ UNCHANGED <<state_, states>>
  /\ Did("write", x)
  /\ UNCHANGED propVars

Init ==
  /\ state_ = <<>>
  /\ states = <<>>
  /\ anys = <<>>
  /\ last = "init"
  /\ stack = <<>>
  /\ counter = 0
  /\ idioms = 0
  /\ firstFail = <<>>

Next ==
  \/ \E x \in Objects : DefaultCtor(x)
  \/ \E x \in Objects, c \in Codes, m \in Msgs : MsgCtor(x, c, m)
  \/ \E x \in Objects, c \in Codes, m \in Msgs, g \in Opt(Messages) : CtxCtor(x, c, m, g)
  \/ \E x \in Objects, s \in Objects : PbCtor(x, s)
  \/ \E x \in Objects, w \in WireVals : AdaptPb(x, w)
  \/ \E x \in Objects, s \in Objects : CopyCtor(x, s)
  \/ \E a \in Objects, s \in Objects : Assign(a, s)
  \/ \E x \in Objects : Destroy(x)
  \/ \E x \in Objects, v \in Anys : ContextWrite(x, v)

Spec == Init /\ [][Next]_vars

----------------------------------------------------------------------------
(* PL_RETURN_IF_ERROR (status.h:140-151)                                   *)
(*                                                                         *)
(* An operation at depth d is NumSteps statements PL_RETURN_IF_ERROR(e)    *)
(* followed by return Status::OK().  An expression e is a leaf, whose      *)
(* value is drawn here, or, above the deepest level, a call of an          *)
(* operation one level down.  Evaluating e has a side effect: counter++.   *)

\* The temporary that frame d's `const auto& __status_name__` is bound to.
Tmp(d) == NumObjects + d
\* The Status the top-level operation returns to its caller.
Ret == NumObjects + Depth + 1
\* Where frame d's return value is constructed.
Target(d) == IF d = 1 THEN Ret ELSE Tmp(d - 1)

\* A macro that names its argument twice: `return StatusAdapter(__status)`.
PL_RETURN_IF_ERROR_twice(h, cnt, tgt, tmp) ==
  IF ~ok(h, tmp)
  THEN [heap |-> Status_destroy(StatusAdapter_Status(h, tgt, tmp), tmp),
        counter |-> cnt + 1, returned |-> TRUE]
  ELSE [heap |-> Status_destroy(h, tmp), counter |-> cnt, returned |-> FALSE]

\* A macro that tests the status and goes on regardless.
PL_RETURN_IF_ERROR_ignore(h, cnt, tgt, tmp) ==
  [heap |-> Status_destroy(h, tmp), counter |-> cnt, returned |-> FALSE]

\* if (!__status_name__.ok()) return StatusAdapter(__status_name__);
\* the bound temporary dies when the block is left either way.
PL_RETURN_IF_ERROR_IMPL(h, cnt, tgt, tmp) ==
  IF ~ok(h, tmp)
  THEN [heap |-> Status_destroy(StatusAdapter_Status(h, tgt, tmp), tmp),
        counter |-> cnt, returned |-> TRUE]
  ELSE [heap |-> Status_destroy(h, tmp), counter |-> cnt, returned |-> FALSE]

Top == stack[Len(stack)]
Pop == SubSeq(stack, 1, Len(stack) - 1)
SetTop(st, f) == [st EXCEPT ![Len(st)] = f]
\* The caller, if any, resumes with the callee's value bound.
Resume(st) == IF st = <<>> THEN st ELSE SetTop(st, [st[Len(st)] EXCEPT !.phase = "check"])

\* The caller invokes the top-level operation.
Start ==
  /\ stack = <<>>
  /\ Ret \notin Live
  /\ stack' = <<[step |-> 1, phase |-> "eval"]>>
  /\ Did("start", Ret)
  /\ UNCHANGED <<state_, states, anys, counter, idioms, firstFail>>

\* const auto& __status_name__ = (e), e a leaf yielding success.
EvalLeafOk ==
  /\ stack # <<>> /\ Top.phase = "eval"
  /\ SetHeap(Status_default(Heap, Tmp(Len(stack))))
  /\ stack' = SetTop(stack, [Top EXCEPT !.phase = "check"])
  /\ counter' = counter + 1
  /\ idioms' = idioms + 1
  /\ Did("leaf", Tmp(Len(stack)))
  /\ UNCHANGED firstFail

\* const auto& __status_name__ = (e), e a leaf yielding Status(c, m, g).
EvalLeafError(c, m, g) ==
  /\ stack # <<>> /\ Top.phase = "eval"
  /\ SetHeap(Status_ctx(Heap, Tmp(Len(stack)), c, m, g))
  /\ stack' = SetTop(stack, [Top EXCEPT !.phase = "check"])
  /\ counter' = counter + 1
  /\ idioms' = idioms + 1
  /\ firstFail' = IF firstFail = <<>>
                  THEN <<[code |-> c, msg |-> m,
                          context |-> IF g = <<>> THEN <<>> ELSE <<PackFrom(g[1])>>]>>
                  ELSE firstFail
  /\ Did("leaf", Tmp(Len(stack)))

\* const auto& __status_name__ = (e), e a call one level down.
EvalCall ==
  /\ stack # <<>> /\ Top.phase = "eval"
  /\ Len(stack) < Depth
  /\ stack' = Append(SetTop(stack, [Top EXCEPT !.phase = "call"]),
                     [step |-> 1, phase |-> "eval"])
  /\ counter' = counter + 1
  /\ idioms' = idioms + 1
  /\ Did("call", Tmp(Len(stack)))
  /\ UNCHANGED <<state_, states, anys, firstFail>>

\* The rest of the macro, and what follows it in the operation: the next
\* statement, or return Status::OK() after the last one.
Check ==
  /\ stack # <<>> /\ Top.phase = "check"
  /\ LET d == Len(stack)
         r == PL_RETURN_IF_ERROR_IMPL(Heap, counter, Target(d), Tmp(d))
     IN /\ counter' = r.counter
        /\ IF r.returned
           THEN /\ SetHeap(r.heap)
                /\ stack' = Resume(Pop)
                /\ Did("return_error", Target(d))
           ELSE IF Top.step < NumSteps
           THEN /\ SetHeap(r.heap)
                /\ stack' = SetTop(stack, [step |-> Top.step + 1, phase |-> "eval"])
                /\ Did("continue", Target(d))
           ELSE /\ SetHeap(Status_default(r.heap, Target(d)))
                /\ stack' = Resume(Pop)
                /\ Did("return_ok", Target(d))
  /\ UNCHANGED <<idioms, firstFail>>

\* The caller drops the result and may call again.
Finish ==
  /\ stack = <<>>
  /\ Ret \in Live
  /\ SetHeap(Status_destroy(Heap, Ret))
  /\ counter' = 0
  /\ idioms' = 0
  /\ firstFail' = <<>>
  /\ stack' = stack
  /\ Did("init", Ret)

NextProp ==
  \/ Start
  \/ EvalLeafOk
  \/ \E c \in Codes, m \in Msgs, g \in Opt(Messages) : EvalLeafError(c, m, g)
  \/ EvalCall
  \/ Check
  \/ Finish

SpecProp == Init /\ [][NextProp]_vars

----------------------------------------------------------------------------
(* Properties *)

\* What a caller can observe of Status x.
View(h, x) ==
  [ok |-> ok(h, x), code |-> code(h, x), msg |-> msg(h, x),
   has_context |-> has_context(h, x), context |-> ContextValue(h, x)]

\* Object ids no client variable uses, for values built only to compare.
Scratch == NumObjects + Depth + 2
Scratch2 == Scratch + 1

\* No two live Status values point to the same State or the same Any.
NoSharing(h) ==
  \A x, y \in DOMAIN h.state_ :
    x # y =>
      /\ h.state_[x] # NULL => h.state_[x] # h.state_[y]
      /\ context(h, x) # NULL => context(h, x) # context(h, y)

\* C1: every live Status has ok() iff it has no State iff code() == OK; no
\* Status with ok() == false reports code() == OK.
C1_OkIffNoStateIffCodeOK ==
  \A x \in Live :
    /\ ok(Heap, x) <=> state_[x] = NULL
    /\ state_[x] = NULL <=> code(Heap, x) = OK

\* C2: a Status made by the default constructor / Status::OK() is ok, has code
\* OK, the empty message, a null context and no context, and making it
\* allocates no State (and no Any).
C2_SuccessFactory ==
  \A x \in Objects \ Live :
    LET h == Status_default(Heap, x) IN
    /\ ok(h, x)
    /\ code(h, x) = OK
    /\ msg(h, x) = empty_string
    /\ context(h, x) = NULL
    /\ ~has_context(h, x)
    /\ h.state_[x] = NULL
    /\ h.states = states
    /\ h.anys = anys

C2_Witness ==
  /\ last = "default"
  /\ \E x \in Live : ok(Heap, x) /\ code(Heap, x) = OK /\ state_[x] = NULL
  /\ DOMAIN states # {}

\* C3: for every non-OK code c and every message m, Status(c, m) is not ok,
\* has code c, message m and no context.
C3_CodeMsgCtor ==
  \A x \in Objects \ Live, c \in Codes \ {OK}, m \in Msgs :
    LET h == Status_msg(Heap, x, c, m) IN
    /\ ~ok(h, x)
    /\ code(h, x) = c
    /\ msg(h, x) = m
    /\ ~has_context(h, x)

C3_Witness ==
  /\ last = "msg"
  /\ \E x \in Live : /\ ~ok(Heap, x) /\ code(Heap, x) # OK
                     /\ msg(Heap, x) = <<>> /\ ~has_context(Heap, x)
  /\ Objects \ Live # {}

\* C4: no two live Status values ever share a State or a context payload; a
\* copy is equal to its source and shows the same values, shares nothing with
\* it, and still shows them after the source is destroyed or reassigned;
\* destroying or reassigning a Status leaves every other Status as it was.
C4_CopyIndependence ==
  /\ NoSharing(Heap)
  /\ \A s \in Live :
       LET h == Status_copy(Heap, Scratch, s) IN
       /\ operator_eq(h, Scratch, s)
       /\ View(h, Scratch) = View(Heap, s)
       /\ NoSharing(h)
       /\ View(Status_destroy(h, s), Scratch) = View(Heap, s)
       /\ \A b \in Live : View(Status_assign(h, s, b), Scratch) = View(Heap, s)
  /\ \A a \in Live : \A y \in Live \ {a} :
       /\ View(Status_destroy(Heap, a), y) = View(Heap, y)
       /\ \A b \in Live : View(Status_assign(Heap, a, b), y) = View(Heap, y)

C4_Witness ==
  /\ last = "copy"
  /\ \E x, y \in Live :
       /\ x # y
       /\ has_context(Heap, x) /\ has_context(Heap, y)
       /\ context(Heap, x) # context(Heap, y)
       /\ state_[x] # state_[y]
       /\ View(Heap, x) = View(Heap, y)

\* C5: a == b exactly when both are success, or both are failures with equal
\* codes and equal messages; a != b is its negation.
C5_Equality ==
  \A a, b \in Live :
    /\ operator_eq(Heap, a, b) <=>
         \/ ok(Heap, a) /\ ok(Heap, b)
         \/ /\ ~ok(Heap, a) /\ ~ok(Heap, b)
            /\ code(Heap, a) = code(Heap, b)
            /\ msg(Heap, a) = msg(Heap, b)
    /\ operator_ne(Heap, a, b) <=> ~operator_eq(Heap, a, b)

\* C6: a Status built from s.ToProto(), s without context, equals s and has
\* the same ok(), code() and msg() and no context; ToProto into an existing
\* wire value gives the wire value ToProto() returns.
C6_WireRoundTrip ==
  \A s \in Live :
    ~has_context(Heap, s) =>
      LET h == Status_pb(Heap, Scratch, ToProto(Heap, s)) IN
      /\ operator_eq(h, Scratch, s)
      /\ ok(h, Scratch) = ok(Heap, s)
      /\ code(h, Scratch) = code(Heap, s)
      /\ msg(h, Scratch) = msg(Heap, s)
      /\ ~has_context(h, Scratch)
      /\ \A w \in WireVals : ToProtoInto(Heap, s, w) = ToProto(Heap, s)

\* C7: StatusAdapter of a wire value with code X and message Y (X any code,
\* OK included) equals Status(X, Y) and has the same ok(), code() and msg().
C7_AdapterFromWire ==
  \A w \in WireVals :
    LET h == Status_msg(StatusAdapter_pb(Heap, Scratch, w), Scratch2, w.code, w.msg) IN
    /\ operator_eq(h, Scratch, Scratch2)
    /\ ok(h, Scratch) = ok(h, Scratch2)
    /\ code(h, Scratch) = w.code /\ code(h, Scratch2) = w.code
    /\ msg(h, Scratch) = w.msg /\ msg(h, Scratch2) = w.msg

C7_Witness ==
  /\ last = "adapt_pb"
  /\ \E x \in Live : code(Heap, x) = OK /\ msg(Heap, x) # <<>>
  /\ \E x \in Live : code(Heap, x) # OK /\ has_context(Heap, x)

\* C8: once an expression has yielded a non-ok Status no further expression
\* is evaluated, every enclosing operation returns at once and the caller
\* receives that code, message and context; an ok Status makes the operation
\* go on with its next step, or return OK after the last one.
C8_ShortCircuit ==
  [][/\ (firstFail # <<>> /\ ~Finish) => (counter' = counter /\ idioms' = idioms)
     /\ (stack' = <<>> /\ Ret \in DOMAIN state_' /\ firstFail' # <<>>) =>
          /\ ~ok(Heap', Ret)
          /\ code(Heap', Ret) = firstFail'[1].code
          /\ msg(Heap', Ret) = firstFail'[1].msg
          /\ ContextValue(Heap', Ret) = firstFail'[1].context
     /\ (stack # <<>> /\ Top.phase = "check" /\ ~ok(Heap, Tmp(Len(stack)))) =>
          /\ stack' = Resume(Pop)
          /\ View(Heap', Target(Len(stack))) = View(Heap, Tmp(Len(stack)))
     /\ (stack # <<>> /\ Top.phase = "check" /\ ok(Heap, Tmp(Len(stack)))) =>
          IF Top.step < NumSteps
          THEN stack' = SetTop(stack, [step |-> Top.step + 1, phase |-> "eval"])
          ELSE stack' = Resume(Pop) /\ ok(Heap', Target(Len(stack)))]_vars

C8_Witness ==
  /\ last = "return_error"
  /\ stack = <<>>
  /\ Ret \in Live
  /\ firstFail # <<>>
  /\ code(Heap, Ret) = "NOT_FOUND"
  /\ msg(Heap, Ret) # <<>>
  /\ counter = Depth

\* C9: every execution of PL_RETURN_IF_ERROR evaluates its expression exactly
\* once, whether the result is ok or not: the side effect has occurred once
\* per execution.
C9_SingleEvaluation == counter = idioms

C9_Witness ==
  /\ last = "return_error"
  /\ stack = <<>>
  /\ counter > NumSteps

\* C10: after a = b, a shows what b showed, a == b, b and every other Status
\* are unchanged, a's State is not b's when b is a failure; a = a changes
\* nothing; assigning a success makes a ok.
C10_Assignment ==
  \A a, s \in Live :
    LET h == Status_assign(Heap, a, s) IN
    /\ ok(h, a) = ok(Heap, s)
    /\ code(h, a) = code(Heap, s)
    /\ msg(h, a) = msg(Heap, s)
    /\ has_context(h, a) = has_context(Heap, s)
    /\ operator_eq(h, a, s)
    /\ \A y \in Live \ {a} : y \in DOMAIN h.state_ /\ View(h, y) = View(Heap, y)
    /\ (a # s /\ ~ok(Heap, s)) => h.state_[a] # h.state_[s]
    /\ a = s => View(h, a) = View(Heap, a)
    /\ ok(Heap, s) => ok(h, a)

C10_Witness ==
  /\ last = "assign"
  /\ \E a, s \in Live :
       /\ a # s
       /\ has_context(Heap, a)
       /\ View(Heap, a) = View(Heap, s)
       /\ state_[a] # state_[s]

====
